---- MODULE Spec2Model ----
(***************************************************************************)
(* The chat session lifecycle of ChatbotInterface.tsx: session identity    *)
(* in localStorage, hydration from the remote session store, user turns    *)
(* (handleSend) with their completion call, and termination (endChat).     *)
(*                                                                         *)
(* Every async function of the component is a process record in procs:     *)
(* it is issued by a handler, waits at each await for the response of the  *)
(* remote call (resp = "pending"), and continues in a later step.  A       *)
(* record carries the values its closure captured when the handler ran     *)
(* (messages, input, sessionId), which is what the continuation reads.     *)
(* A component instance lives from a page load (Mount) to the moment the   *)
(* page is left or reloaded (Unmount), which ends its async functions.     *)
(***************************************************************************)
EXTENDS Integers, Sequences, FiniteSets, TLC

(* ---- bounds of the model ---- *)
\* The events of the environment in one behaviour: page loads, accepted
\* submissions, clicks on "End Chat", remote calls that fail or answer without
\* text, and milliseconds the clock advances.
MaxEvents == 5
MaxHistory == 9
MaxLiveEvents == 4

(* ---- program constants ---- *)
ClockStart == 10    \* any Date.now() value; far from the seed id '1'

VARIABLES
    localStorage,   \* localStorage['medassist_session_id']; 0 is absent
    nextUuid,       \* the next value uuidv4() returns
    remote,         \* the remote session store: session id -> messages
    inst,           \* number of component instances mounted so far
    mounted,        \* whether the component is mounted
    messages,       \* useState: messages
    isLoading,      \* useState: isLoading
    sessionId,      \* useState: sessionId; 0 is ''
    input,          \* useState: input
    procs,          \* async functions in flight, and those that finished
    now,            \* Date.now()
    closed,         \* closeChat, when the prop is given, has been called
    toast,          \* the last toast shown
    events          \* events of the environment so far

vars == <<localStorage, nextUuid, remote, inst, mounted, messages,
          isLoading, sessionId, input, procs, now, closed, toast, events>>

(* ---- text ---- *)
\* A text is a sequence of characters; " " is whitespace.
GREETING == <<"H", "i">>
SORRY_TEXT == <<"S">>
ERROR_TEXT == <<"E">>

\* the texts a user may have in the input box
Inputs == {<<" ">>, <<" ", "a">>}
\* the texts the completion service may generate ("" is no usable text)
Replies == {<<"r">>, <<>>}

RECURSIVE TrimStart(_)
TrimStart(s) ==
    IF s = <<>> THEN <<>>
    ELSE IF Head(s) = " " THEN TrimStart(Tail(s)) ELSE s

RECURSIVE TrimEnd(_)
TrimEnd(s) ==
    IF s = <<>> THEN <<>>
    ELSE IF s[Len(s)] = " " THEN TrimEnd(SubSeq(s, 1, Len(s) - 1)) ELSE s

TrimNothing(s) == s

\* String.prototype.trim
Trim(s) == TrimEnd(TrimStart(s))

(* ---- messages ---- *)
Message(id, content, role) == [id |-> id, content |-> content, role |-> role]
NoMessage == Message(0, <<>>, "none")

initialMessages == <<Message(1, GREETING, "bot")>>

SliceFirst(s, n) == IF Len(s) <= n THEN s ELSE SubSeq(s, 1, n)

\* messages.slice(-n)
SliceLast(s, n) == IF Len(s) <= n THEN s ELSE SubSeq(s, Len(s) - n + 1, Len(s))

ContextLimit == 10

\* msg => ({ role: msg.role, content: msg.content })
RoleContent(m) == [role |-> m.role, content |-> m.content]

\* handleSend: previousMessages, computed from the messages the closure holds
PreviousMessages(closureMessages) ==
    LET last == SliceLast(closureMessages, ContextLimit)
    IN  [i \in 1..Len(last) |-> RoleContent(last[i])]

(* ---- the remote session store (mongodb-chat) ---- *)
SessionIds == 0..MaxEvents

GetSession(store, sid) == store[sid]
SaveSession(store, sid, msgs) == [store EXCEPT ![sid] = msgs]
SaveMessage(store, sid, m) == [store EXCEPT ![sid] = Append(@, m)]
EndSession(store, sid) == [store EXCEPT ![sid] = <<>>]

(* ---- processes ---- *)
\* kind: "init" (initSession), "send" (handleSend), "end" (endChat)
\* pc:   the remote call the process awaits, or "done"
\* inst: the component instance whose handler started the process
\* sid, msgs, text: sessionId, messages and input as the closure holds them
\* user, msg: the user message of a turn, and the message being saved
\* ctx: previousMessages as sent;  hyd: the messages hydration loaded
\* resp, data: the answer to the awaited call;  carried: the remote side has
\* carried the awaited call out;  failed: the awaited call of the turn (the
\* completion) or of endChat (the purge) failed
NewProc(pid, kind, pc, sid, msgs, text, msg) ==
    [pid |-> pid, kind |-> kind, inst |-> inst, pc |-> pc, sid |-> sid,
     msgs |-> msgs, text |-> text, msg |-> msg, user |-> msg, ctx |-> <<>>,
     resp |-> "pending", data |-> <<>>, carried |-> FALSE, failed |-> FALSE,
     hyd |-> <<>>, unsaved |-> FALSE]

\* the process awaits the next remote call
Await(p, pc) ==
    [p EXCEPT !.pc = pc, !.resp = "pending", !.data = <<>>, !.carried = FALSE]
\* the async function has returned
Finish(p) ==
    [p EXCEPT !.pc = "done", !.resp = "none", !.data = <<>>,
              !.carried = p.kind = "end" /\ p.carried]

Replace(p, q) == (procs \ {p}) \cup {q}

\* the calls of handleSend and of endChat, each numbered in its kind by pid
Sends == {p \in procs : p.kind = "send"}
Ends == {p \in procs : p.kind = "end"}

\* one more event of the environment, if the behaviour has room for it
Event == events < MaxEvents /\ events' = events + 1

\* Date.now(): since the last read the clock has advanced by d milliseconds, in
\* a step that holds k other events
Ticks(k) == {d \in {0, 1} : events + k + d <= MaxEvents}

Init ==
    /\ localStorage = 0
    /\ nextUuid = 1
    /\ remote = [s \in SessionIds |-> <<>>]
    /\ inst = 0
    /\ mounted = FALSE
    /\ messages = <<>>
    /\ isLoading = FALSE
    /\ sessionId = 0
    /\ input = <<>>
    /\ procs = {}
    /\ now = ClockStart
    /\ closed = FALSE
    /\ toast = "none"
    /\ events = 0

NewSessionIdAlwaysMinted(storedSessionId, uuid) == uuid

\* storedSessionId || uuidv4()
NewSessionId(storedSessionId, uuid) == IF storedSessionId # 0 THEN storedSessionId ELSE uuid

\* useEffect(..., []) up to the first await of initSession
Mount ==
    /\ ~mounted
    /\ Event
    /\ LET storedSessionId == localStorage
           newSessionId == NewSessionId(storedSessionId, nextUuid)
       IN  /\ localStorage' = IF storedSessionId = 0 THEN newSessionId ELSE localStorage
           /\ nextUuid' = IF newSessionId = nextUuid THEN nextUuid + 1 ELSE nextUuid
           /\ sessionId' = newSessionId
           /\ procs' = procs \cup {[NewProc(1, "init", "getSession", newSessionId,
                                            <<>>, <<>>, NoMessage)
                                    EXCEPT !.inst = inst + 1]}
    /\ inst' = inst + 1
    /\ mounted' = TRUE
    /\ messages' = initialMessages
    /\ isLoading' = FALSE
    /\ input' = <<>>
    /\ UNCHANGED <<remote, now, closed, toast>>

\* the async functions that have ended a chat
Ended == {p \in procs : p.kind = "end" /\ p.pc = "done"}

\* the page is left or reloaded: the component and its async functions in flight
\* are gone; localStorage and the remote store stay
Unmount ==
    /\ mounted
    /\ mounted' = FALSE
    /\ procs' = Ended
    /\ messages' = <<>>
    /\ isLoading' = FALSE
    /\ sessionId' = 0
    /\ input' = <<>>
    /\ closed' = FALSE
    /\ toast' = "none"
    /\ UNCHANGED <<localStorage, nextUuid, remote, inst, now, events>>

(* ---- the remote side of supabase.functions.invoke ---- *)
\* what the store holds once the call of p has been carried out
Served(p) ==
    CASE p.pc = "saveSession" -> SaveSession(remote, p.sid, initialMessages)
      [] p.pc \in {"saveUser", "saveBot"} -> SaveMessage(remote, p.sid, p.msg)
      [] p.pc = "endSession" -> EndSession(remote, p.sid)
      [] OTHER -> remote

\* the call of p is carried out and answers { data, error: null }
Serve(p) ==
    /\ p.resp = "pending"
    /\ p.pc # "complete"
    /\ remote' = Served(p)
    /\ procs' = Replace(p, [p EXCEPT !.resp = "ok", !.carried = TRUE,
                              !.data = IF p.pc = "getSession"
                                       THEN GetSession(remote, p.sid) ELSE <<>>])
    /\ UNCHANGED <<localStorage, nextUuid, inst, mounted, messages,
                   isLoading, sessionId, input, now, closed, toast, events>>

\* gemini-health-chat answers { data: { generatedText }, error: null }
ServeCompletion(p) ==
    /\ p.resp = "pending"
    /\ p.pc = "complete"
    /\ \E text \in Replies :
         /\ procs' = Replace(p, [p EXCEPT !.resp = "ok", !.carried = TRUE,
                                           !.data = text])
         /\ IF text = <<>> THEN Event ELSE UNCHANGED events
    /\ UNCHANGED <<localStorage, nextUuid, remote, inst, mounted, messages, isLoading, sessionId, input, now, closed, toast>>

\* the call of p fails: invoke answers { error } or rejects; the request may or
\* may not have been carried out before the failure
Fail(p) ==
    /\ p.resp = "pending"
    /\ Event
    /\ \E how \in {"error", "throw"}, carried \in BOOLEAN :
         /\ remote' = IF carried THEN Served(p) ELSE remote
         /\ procs' = Replace(p, [p EXCEPT !.resp = how, !.carried = carried])
    /\ UNCHANGED <<localStorage, nextUuid, inst, mounted, messages,
                   isLoading, sessionId, input, now, closed, toast>>

(* ---- initSession ---- *)
HydratedKeepingSeed(current, loaded) == current \o loaded

\* setMessages(data.data.messages)
Hydrated(current, loaded) == loaded

HydrationFailedCleared(current) == <<>>

\* getSession answered with an error (logged, return) or rejected (catch, logged):
\* no state is set
HydrationFailed(current) == current

\* initSession after await invoke(getSession)
InitGetSessionReturn(p) ==
    /\ p.kind = "init" /\ p.pc = "getSession" /\ p.resp # "pending"
    /\ IF p.resp = "ok" /\ Len(p.data) > 0
       THEN /\ messages' = Hydrated(messages, p.data)
            /\ procs' = Replace(p, [Finish(p) EXCEPT !.hyd = p.data])
       ELSE IF p.resp = "ok"
       THEN /\ procs' = Replace(p, Await(p, "saveSession"))
            /\ UNCHANGED messages
       ELSE /\ procs' = Replace(p, [Finish(p) EXCEPT !.failed = TRUE])
            /\ messages' = HydrationFailed(messages)
    /\ UNCHANGED <<localStorage, nextUuid, remote, inst, mounted, isLoading, sessionId, input, now, closed, toast, events>>

\* initSession after await invoke(saveSession): the answer is not read
InitSaveSessionReturn(p) ==
    /\ p.kind = "init" /\ p.pc = "saveSession" /\ p.resp # "pending"
    /\ procs' = Replace(p, Finish(p))
    /\ UNCHANGED <<localStorage, nextUuid, remote, inst, mounted, messages, isLoading, sessionId, input, now, closed,
                   toast, events>>

(* ---- the input box ---- *)
InputEnabledWhileLoading == mounted

\* the textarea and the send button are disabled while isLoading
InputEnabled == mounted /\ ~isLoading

\* onChange of the textarea, or a click on a suggested query
SetInput(text) ==
    /\ InputEnabled
    /\ input # text
    /\ input' = text
    /\ UNCHANGED <<localStorage, nextUuid, remote, inst, mounted, messages, isLoading, sessionId, procs, now, closed,
                   toast, events>>

(* ---- handleSend ---- *)
ClosureMessagesFresh(rendered, updated) == updated

\* messages as handleSend reads it after its own setMessages: the value of the
\* render the handler belongs to, not the updated state
ClosureMessages(rendered, updated) == rendered

\* the errorMessage of the catch block
ErrorMessage(t) == Message(t + 1, ERROR_TEXT, "bot")

StillLoading(loading) == loading

\* the finally block: setIsLoading(false)
AfterFinally(loading) == FALSE

\* the botMessage of the try block
BotMessage(t, generatedText) ==
    Message(t + 1, IF generatedText # <<>> THEN generatedText ELSE SORRY_TEXT, "bot")

\* Enter in the textarea or a click on the send button: handleSend up to the
\* await inside saveMessageToMongoDB(userMessage)
HandleSend ==
    /\ InputEnabled
    /\ IF Trim(input) = <<>>
       THEN UNCHANGED vars
       ELSE /\ \E d \in Ticks(1) :
                 /\ now' = now + d
                 /\ events' = events + 1 + d
            /\ LET userMessage == Message(now', input, "user")
               IN  /\ messages' = Append(messages, userMessage)
                   /\ procs' = procs \cup {NewProc(Cardinality(Sends) + 1, "send",
                                                   "saveUser", sessionId,
                                                   ClosureMessages(messages,
                                                       Append(messages, userMessage)),
                                                   input, userMessage)}
            /\ input' = <<>>
            /\ isLoading' = TRUE
            /\ UNCHANGED <<localStorage, nextUuid, remote, inst, mounted,
                           sessionId, closed, toast>>

SaveMessageRethrows(resp) == IF resp = "throw" THEN "rejected" ELSE "resolved"

\* saveMessageToMongoDB: the answer of invoke is not read and a rejection is
\* caught and logged, so the call always resolves
SaveMessageToMongoDB(resp) == "resolved"

\* handleSend after await saveMessageToMongoDB(userMessage), which swallows any
\* failure: build previousMessages and call the completion service
SaveUserReturn(p) ==
    /\ p.kind = "send" /\ p.pc = "saveUser" /\ p.resp # "pending"
    /\ procs' = Replace(p, IF SaveMessageToMongoDB(p.resp) = "resolved"
                            THEN [Await(p, "complete") EXCEPT
                                    !.ctx = PreviousMessages(p.msgs),
                                    !.unsaved = p.resp # "ok"]
                            ELSE [Finish(p) EXCEPT !.unsaved = TRUE])
    /\ UNCHANGED <<localStorage, nextUuid, remote, inst, mounted, messages, isLoading, sessionId, input, now, closed,
                   toast, events>>

\* handleSend after await invoke(gemini-health-chat): the bot message, or the
\* error message of the catch block, is appended and saved
CompletionReturn(p) ==
    /\ p.kind = "send" /\ p.pc = "complete" /\ p.resp # "pending"
    /\ \E d \in Ticks(0) :
         /\ now' = now + d
         /\ events' = events + d
    /\ LET ok == p.resp = "ok"
           botMessage == BotMessage(now', p.data)
           errorMessage == ErrorMessage(now')
           m == IF ok THEN botMessage ELSE errorMessage
       IN  /\ messages' = Append(messages, m)
           /\ toast' = IF ok THEN toast ELSE "send-error"
           /\ procs' = Replace(p, [Await(p, "saveBot") EXCEPT
                                     !.msg = m, !.failed = ~ok])
    /\ UNCHANGED <<localStorage, nextUuid, remote, inst, mounted, isLoading, sessionId, input, closed>>

\* handleSend after the last await saveMessageToMongoDB: the finally block
SaveBotReturn(p) ==
    /\ p.kind = "send" /\ p.pc = "saveBot" /\ p.resp # "pending"
    /\ isLoading' = AfterFinally(isLoading)
    /\ procs' = Replace(p, [Finish(p) EXCEPT !.unsaved = p.unsaved \/ p.resp # "ok"])
    /\ UNCHANGED <<localStorage, nextUuid, remote, inst, mounted, messages, sessionId, input, now, closed, toast, events>>

(* ---- endChat ---- *)
\* a click on "End Chat": endChat up to await invoke(endSession)
EndChat ==
    /\ mounted
    /\ Event
    /\ procs' = procs \cup {NewProc(Cardinality(Ends) + 1, "end", "endSession",
                                    sessionId, <<>>, <<>>, NoMessage)}
    /\ UNCHANGED <<localStorage, nextUuid, remote, inst, mounted, messages, isLoading, sessionId, input, now, closed, toast>>

\* endChat after await invoke(endSession): a returned error is not read; a
\* rejection goes to the catch block
EndSessionReturn(p) ==
    /\ p.kind = "end" /\ p.pc = "endSession" /\ p.resp # "pending"
    /\ IF p.resp = "throw"
       THEN /\ toast' = "end-error"
            /\ UNCHANGED <<localStorage, closed>>
       ELSE /\ localStorage' = 0
            /\ closed' = TRUE
            /\ toast' = "chat-ended"
    /\ procs' = Replace(p, [Finish(p) EXCEPT !.failed = p.resp # "ok"])
    /\ UNCHANGED <<nextUuid, remote, inst, mounted, messages,
                   isLoading, sessionId, input, now, events>>

Next ==
    \/ Mount
    \/ Unmount
    \/ \E text \in Inputs : SetInput(text)
    \/ HandleSend
    \/ EndChat
    \/ \E p \in procs : Serve(p)
    \/ \E p \in procs : ServeCompletion(p)
    \/ \E p \in procs : Fail(p)
    \/ \E p \in procs : InitGetSessionReturn(p)
    \/ \E p \in procs : InitSaveSessionReturn(p)
    \/ \E p \in procs : SaveUserReturn(p)
    \/ \E p \in procs : CompletionReturn(p)
    \/ \E p \in procs : SaveBotReturn(p)
    \/ \E p \in procs : EndSessionReturn(p)

Spec == Init /\ [][Next]_vars

\* A conversation of n messages as earlier page loads leave it in the store:
\* the seed, then user and bot messages in turn, created before ClockStart
History(n) ==
    [i \in 1..n |->
        IF i = 1 THEN initialMessages[1]
        ELSE IF i % 2 = 0 THEN Message(i - MaxHistory - 1, <<" ", "a">>, "user")
        ELSE Message(i - MaxHistory - 1, <<"r">>, "bot")]

\* The page is opened by a returning visitor: localStorage holds the session id
\* and the store holds the conversation so far
InitResume ==
    /\ localStorage = 1
    /\ nextUuid = 2
    /\ remote = [s \in SessionIds |-> IF s = 1 THEN History(MaxHistory) ELSE <<>>]
    /\ inst = 0
    /\ mounted = FALSE
    /\ messages = <<>>
    /\ isLoading = FALSE
    /\ sessionId = 0
    /\ input = <<>>
    /\ procs = {}
    /\ now = ClockStart
    /\ closed = FALSE
    /\ toast = "none"
    /\ events = 0

SpecResume == InitResume /\ [][Next]_vars

(* ---- scheduling ---- *)
Kinds == {"init", "send", "end"}

\* the pending remote call of an async function of this kind returns or throws
Answer(kind) ==
    \E p \in procs : p.kind = kind /\ (Serve(p) \/ ServeCompletion(p) \/ Fail(p))

\* the event loop resumes an async function of this kind whose await has settled
Resume(kind) ==
    \E p \in procs :
       /\ p.kind = kind
       /\ \/ InitGetSessionReturn(p) \/ InitSaveSessionReturn(p)
          \/ SaveUserReturn(p) \/ CompletionReturn(p) \/ SaveBotReturn(p)
          \/ EndSessionReturn(p)

\* every remote call eventually returns or throws, and a settled await is
\* eventually resumed; the user and the page lifetime are under no obligation
Fairness == \A kind \in Kinds : WF_vars(Answer(kind)) /\ WF_vars(Resume(kind))

\* the steps of the component within the event budget of the fair runs
NextLive == Next /\ events' <= MaxLiveEvents

LiveSpec == Init /\ [][NextLive]_vars /\ Fairness

(***************************************************************************)
(* Properties                                                              *)
(***************************************************************************)
\* the turns whose async function has not returned yet
InFlight == {p \in Sends : p.pc # "done"}
\* the turns that have sent their completion request
Called(p) == p.pc \in {"complete", "saveBot", "done"}
\* the process q of the next state continues p
Continues(p, q) == q.kind = p.kind /\ q.pid = p.pid /\ q.inst = p.inst
\* the handler of this step started the process q
Started(q) == \A p \in procs : ~Continues(p, q)

IsPrefix(s, t) == Len(s) <= Len(t) /\ SubSeq(t, 1, Len(s)) = s

EndTriggered == mounted /\ \E p \in Ends : p.inst = inst

\* C3 as stated: once endChat has been triggered, no submission is accepted
\* and no message is appended to the transcript.
C3_NoAppendAfterEnd ==
    [][EndTriggered /\ mounted' =>
         /\ Len(messages') <= Len(messages)
         /\ \A q \in Sends' : ~Started(q)]_vars

\* C4 as stated: when endChat returns, whatever the purge call answered, the
\* stored session id is erased and closeChat has been called.
C4_EndChatErasesAndCloses ==
    [][\A p \in Ends : \A q \in Ends' :
         (Continues(p, q) /\ p.pc = "endSession" /\ q.pc = "done") =>
             /\ localStorage' = 0
             /\ closed']_vars

\* C5 as stated: once endChat has returned for a session whose remote record
\* the purge has deleted, no later mount resolves the id of that session.
C5_TerminatedIdNotResolved ==
    [][(~mounted /\ mounted') =>
         \A p \in Ended : p.carried => sessionId' # p.sid]_vars

\* the step in which initSession loads a non-empty list
Hydrates(p) ==
    /\ p.kind = "init" /\ p.pc = "getSession" /\ p.resp = "ok" /\ Len(p.data) > 0
    /\ \E q \in procs' : Continues(p, q) /\ q.pc = "done"

\* C6: when hydration returns a non-empty list, the transcript becomes that
\* list exactly, and until the component is gone it changes only by a message
\* appended at its end (or by hydration itself).
C6_HydratedTranscriptIsRemote ==
    /\ [][\A p \in procs : Hydrates(p) => messages' = p.data]_vars
    /\ [][(mounted /\ mounted' /\ messages' # messages) =>
            \/ \E p \in procs : Hydrates(p)
            \/ /\ Len(messages') = Len(messages) + 1
               /\ IsPrefix(messages, messages')]_vars

\* hydration has loaded a transcript of an earlier page load, which holds a
\* user message, and nothing has been appended since
C6_Witness ==
    /\ mounted
    /\ Sends = {}
    /\ \E p \in procs :
         /\ p.kind = "init" /\ p.pc = "done"
         /\ Len(p.hyd) > 1
         /\ messages = p.hyd
         /\ \E i \in 1..Len(messages) : messages[i].role = "user"

\* C7 as stated: while the component lives, the transcript only grows at its
\* end.
C7_AppendOnly ==
    [][(mounted /\ mounted') => IsPrefix(messages, messages')]_vars

\* the transcript hydration started the component with
SeedCount ==
    IF \E p \in procs : p.kind = "init" /\ p.hyd # <<>>
    THEN Len((CHOOSE p \in procs : p.kind = "init" /\ p.hyd # <<>>).hyd)
    ELSE Len(initialMessages)

\* C8 as stated: once hydration and N turns have finished, each with a
\* successful completion, the transcript has SeedCount + 2N messages.
C8_LengthAfterTurns ==
    (/\ mounted
     /\ \A p \in procs : p.inst = inst => p.pc = "done"
     /\ \A p \in Sends : ~p.failed)
        => Len(messages) = SeedCount + 2 * Cardinality(Sends)

\* C9: when the completion call of a turn fails, by a returned error or a
\* rejection, that step appends exactly one bot message with the fixed error
\* text and sends it to saveMessage; when that save has returned, the turn
\* ends without another change of the transcript, isLoading is false and the
\* input controls are enabled.
C9_CompletionFailureRecovered ==
    /\ [][\A p \in Sends : \A q \in Sends' :
            (/\ Continues(p, q)
             /\ p.pc = "complete" /\ p.resp \in {"error", "throw"}
             /\ q.pc # "complete") =>
                /\ q.pc = "saveBot" /\ q.resp = "pending" /\ q.failed
                /\ q.msg.role = "bot" /\ q.msg.content = ERROR_TEXT
                /\ messages' = Append(messages, q.msg)]_vars
    /\ [][\A p \in Sends : \A q \in Sends' :
            (Continues(p, q) /\ p.pc = "saveBot" /\ q.pc = "done") =>
                /\ messages' = messages
                /\ ~isLoading' /\ InputEnabled']_vars

\* a turn whose completion failed has ended: the transcript ends with the
\* user message and the error message, and the next submission is possible
C9_Witness ==
    /\ InputEnabled
    /\ \E p \in Sends :
         /\ p.pc = "done" /\ p.failed
         /\ Len(messages) >= 2
         /\ messages[Len(messages)] = p.msg
         /\ messages[Len(messages) - 1] = p.user
         /\ p.msg.content = ERROR_TEXT

\* no remote call has failed or answered without text, in the first instance
NoFaultYet ==
    events = inst + Cardinality(Sends) + Cardinality(Ends) + (now - ClockStart)

\* C10 as stated: on the first page load, with an empty remote store, once
\* hydration and one turn have finished without a failing call, the
\* transcript is [seed, user, assistant] and the remote record of the session
\* holds the same three messages in that order.
C10_FirstTurnPersisted ==
    (/\ mounted /\ inst = 1 /\ NoFaultYet /\ Ends = {}
     /\ Cardinality(Sends) = 1
     /\ \A p \in procs : p.pc = "done")
        => \A p \in Sends :
             /\ messages = initialMessages \o <<p.user, p.msg>>
             /\ remote[sessionId] = messages

Blank(text) == \A i \in 1..Len(text) : text[i] = " "

\* C11: a submit whose input is empty or only whitespace starts nothing: while
\* the input box holds such a text no step of the component starts a turn
\* (no user message, no saveMessage or completion call of a new turn) and
\* isLoading does not become true.
C11_BlankSubmitIgnored ==
    [][(mounted /\ Blank(input)) =>
         /\ \A q \in Sends' : ~Started(q)
         /\ isLoading' => isLoading
         /\ \A m \in {Message(t, input, "user") : t \in {now, now + 1}} :
                messages' # Append(messages, m)]_vars

\* the input box holds a whitespace-only text and the controls are enabled,
\* so Enter runs handleSend on it
C11_Witness ==
    /\ InputEnabled
    /\ input # <<>> /\ Blank(input)
    /\ \A p \in procs : p.pc = "done"

TurnMessages(p) == IF p.pc \in {"saveBot", "done"} THEN <<p.user, p.msg>> ELSE <<p.user>>

RECURSIVE Turns(_)
Turns(k) ==
    IF k = 0 THEN <<>>
    ELSE Turns(k - 1) \o TurnMessages(CHOOSE p \in Sends : p.pid = k)

HydrationFailure ==
    \E p \in procs : p.kind = "init" /\ p.inst = inst /\ p.pc = "done" /\ p.failed

\* C13: a getSession call that answers with an error or rejects is swallowed:
\* the step that receives it ends initSession, changes neither the transcript
\* nor isLoading and notifies nobody; from then on the transcript is the seed
\* followed only by what the turns submitted on this page appended, and the
\* input is enabled whenever no turn is in flight.
C13_HydrationFailureSwallowed ==
    /\ [][\A p \in procs : \A q \in procs' :
            (Continues(p, q) /\ p.kind = "init" /\ p.pc = "getSession"
               /\ p.resp \in {"error", "throw"} /\ q.pc # "getSession") =>
                 /\ q.pc = "done"
                 /\ messages' = messages
                 /\ isLoading' = isLoading
                 /\ toast' = toast
                 /\ remote' = remote]_vars
    /\ []((mounted /\ HydrationFailure) =>
            /\ messages = initialMessages \o Turns(Cardinality(Sends))
            /\ InFlight = {} => InputEnabled)

\* after a failed hydration a turn was submitted and answered
C13_Witness ==
    /\ mounted /\ HydrationFailure
    /\ \E p \in Sends :
          /\ p.pc = "done" /\ ~p.failed
          /\ messages = initialMessages \o <<p.user, p.msg>>
          /\ p.msg.content = <<"r">>

\* initSession of this page load got an empty conversation from getSession
HydratedEmpty ==
    \E p \in procs :
       /\ p.kind = "init" /\ p.inst = inst
       /\ \/ p.pc = "saveSession"
          \/ p.pc = "done" /\ ~p.failed /\ p.hyd = <<>>

\* C14: when getSession has returned an empty conversation (first page load, no
\* call failed, chat not ended), the local transcript starts with the seed and
\* whatever the store holds for the session starts with the seed, so that the
\* seed precedes every user or bot message stored.
C14_SeedIsFirstRecord ==
    (mounted /\ inst = 1 /\ NoFaultYet /\ Ends = {} /\ HydratedEmpty) =>
        /\ IsPrefix(initialMessages, messages)
        /\ remote[sessionId] # <<>> => remote[sessionId][1] = initialMessages[1]

\* C15: a saveMessage call that answers with an error or rejects stops nothing:
\* after the failed save of the user message the turn goes on to the completion
\* call and the transcript is left as it is; every completion answer
\* appends a bot message; after the failed save of that message the message
\* stays, the turn ends and isLoading is false.
C15_SaveFailureNotFatal ==
    [][\A p \in Sends : \A q \in Sends' :
         (Continues(p, q) /\ q.pc # p.pc) =>
            /\ (p.pc = "saveUser" /\ p.resp \in {"error", "throw"}) =>
                  /\ q.pc = "complete" /\ q.resp = "pending"
                  /\ messages' = messages
            /\ p.pc = "complete" =>
                  /\ q.pc = "saveBot"
                  /\ q.msg.role = "bot"
                  /\ messages' = Append(messages, q.msg)
            /\ (p.pc = "saveBot" /\ p.resp \in {"error", "throw"}) =>
                  /\ q.pc = "done"
                  /\ messages' = messages
                  /\ ~isLoading' /\ InputEnabled']_vars

\* a turn whose saves failed has been answered and is over
C15_Witness ==
    /\ InputEnabled
    /\ \E p \in Sends :
          /\ p.pc = "done" /\ p.unsaved /\ ~p.failed
          /\ Len(messages) >= 2
          /\ messages[Len(messages) - 1] = p.user
          /\ messages[Len(messages)] = p.msg
          /\ p.msg.content = <<"r">>

\* C16: resolving the session id when the page loads mints a new id and stores
\* it when none is stored, and returns the stored id otherwise; the stored id
\* changes in no other way than by an endChat that erases it, whatever calls
\* fail, so two page loads with no such erasure in between resolve the same id.
C16_SessionIdStable ==
    /\ [][(~mounted /\ mounted') =>
            /\ sessionId' # 0 /\ localStorage' = sessionId'
            /\ localStorage # 0 => sessionId' = localStorage /\ nextUuid' = nextUuid
            /\ localStorage = 0 => sessionId' = nextUuid /\ nextUuid' > nextUuid]_vars
    /\ [][(localStorage' # localStorage /\ ~(~mounted /\ mounted')) =>
            /\ localStorage' = 0
            /\ \E p \in Ends : \E q \in Ends' :
                  Continues(p, q) /\ p.pc = "endSession" /\ q.pc = "done"]_vars
    /\ [](mounted => sessionId = localStorage \/ localStorage = 0)

\* the second page load resolved the id minted by the first, after a failed call
C16_Witness ==
    /\ mounted /\ inst = 2
    /\ sessionId = 1 /\ localStorage = 1 /\ nextUuid = 2
    /\ HydrationFailure

\* C17: when endChat gets its endSession answer, a purge that failed (an error
\* answer or a rejection) is reported to the user with the error toast, and the
\* "Chat ended / Your conversation has been deleted." toast is shown only when
\* the store carried the purge out.
C17_PurgeFailureReported ==
    [][\A p \in Ends : \A q \in Ends' :
         (Continues(p, q) /\ p.pc = "endSession" /\ q.pc = "done") =>
            /\ p.resp \in {"error", "throw"} => toast' = "end-error"
            /\ toast' = "chat-ended" => p.carried]_vars

\* C18: when no call has failed (first page load, chat not ended) and every
\* async function of the page has returned, so that the hydration and every
\* turn are over, the store holds for the session the messages of the local
\* transcript in the same order.
C18_RemoteMirrorsLocal ==
    (mounted /\ inst = 1 /\ NoFaultYet /\ Ends = {} /\ \A p \in procs : p.pc = "done") =>
        remote[sessionId] = messages

\* C19: the ids of the messages of the transcript are pairwise distinct and
\* follow the order of creation: on the first page load a message created
\* later, which stands later in the transcript, has a greater id.
C19_IdsDistinctAndOrdered ==
    (mounted /\ inst = 1) => \A i, j \in 1..Len(messages) : i < j => messages[i].id < messages[j].id

\* an async function issues a saveMessage or saveSession call in this step
IssuesSave(q) ==
    /\ q.pc \in {"saveUser", "saveBot", "saveSession"}
    /\ q.resp = "pending"
    /\ \A p \in procs : Continues(p, q) => p.pc # q.pc

\* C20: once endChat has requested the purge of a session id, no saveMessage or
\* saveSession call carrying that id is issued any more, neither by a later
\* submission nor by a turn that was in flight.
C20_NoSaveAfterPurgeRequest ==
    [][\A q \in procs' : IssuesSave(q) => \A e \in Ends : e.sid # q.sid]_vars

Hydrating == \E p \in procs : p.kind = "init" /\ p.pc # "done"

\* C21: provided every remote call eventually returns or throws, the component
\* always comes back to idle: a running initSession eventually ends, and
\* whenever isLoading is true it eventually is false again, whichever of the
\* save and completion calls succeed or fail.
C21_ReturnsToIdle ==
    /\ Hydrating ~> ~Hydrating
    /\ isLoading ~> ~isLoading

\* the save of the user message and the completion both failed, initSession
\* has ended and the page is idle again
C21_Witness ==
    /\ InputEnabled /\ ~Hydrating
    /\ \E p \in Sends : p.pc = "done" /\ p.failed /\ p.unsaved
    /\ \A p \in procs : p.pc = "done"
====
